---- MODULE Spec2Model ----
(***************************************************************************)
(* Allocation engine of src/streamlit_app.py: a manifest (factura) splits  *)
(* each title's quantity across three countries; every scanned code is     *)
(* assigned to one country and one row, can be undone, and is logged.      *)
(*                                                                         *)
(* Conventions of the model:                                               *)
(*  - a text is a sequence of one-character strings, so that norm_code     *)
(*    can work character by character;                                     *)
(*  - the country "Perú" is written "Peru";                                *)
(*  - rows are numbered from 1 (pandas numbers them from 0);               *)
(*  - the "ts" field of the log entries (wall clock) is left out;          *)
(*  - st.session_state.df is None exactly while file_sig is "" (both are   *)
(*    set only by the reload block), so df = <<>> with file_sig = NoSig    *)
(*    stands for "no manifest yet";                                        *)
(*  - the banner and the widgets that only render are left out.            *)
(***************************************************************************)
EXTENDS Integers, Sequences, FiniteSets, TLC

\* Most entries the scan log and the not-found log hold together.
MaxScans == 2

\* Longest text given to norm_code on its own.
MaxLen == 3

VARIABLES
    df,             \* st.session_state.df: the rows with their counters
    file_sig,       \* st.session_state.file_sig
    scan_log,       \* st.session_state.scan_log
    no_match,       \* st.session_state.no_match
    prioridad,      \* st.session_state.prioridad
    duplicados,     \* st.session_state.duplicados
    incongruencias, \* st.session_state.incongruencias
    last            \* history: the last operation, its input and its outcome

vars == <<df, file_sig, scan_log, no_match, prioridad, duplicados, incongruencias, last>>

-----------------------------------------------------------------------------
(* Texts and norm_code *)

PAISES == <<"Peru", "Chile", "Colombia">>
PaisSet == {PAISES[k] : k \in 1..Len(PAISES)}

\* The characters [0-9A-Za-z] that norm_code keeps, among those the model uses.
Alnum == {"a", "b", "A", "B", "1", "9"}

\* str.upper() on one character.
Upper(c) == CASE c = "a" -> "A" [] c = "b" -> "B" [] OTHER -> c

\* norm_code without the final .upper().
RECURSIVE norm_code_sin_upper(_)
norm_code_sin_upper(x) ==
    IF x = <<>> THEN <<>>
    ELSE IF Head(x) \in Alnum
         THEN <<Head(x)>> \o norm_code_sin_upper(Tail(x))
         ELSE norm_code_sin_upper(Tail(x))

RECURSIVE norm_code(_)
norm_code(x) ==
    IF x = <<>> THEN <<>>
    ELSE IF Head(x) \in Alnum
         THEN <<Upper(Head(x))>> \o norm_code(Tail(x))
         ELSE norm_code(Tail(x))

-----------------------------------------------------------------------------
(* Inputs: the spreadsheets that may be uploaded, the codes that may be    *)
(* scanned, the selections the multiselect can return.                     *)

Fila(isbn, nombre, total, pe, cl, co) ==
    [isbn |-> isbn, nombre |-> nombre, total |-> total,
     peru |-> pe, chile |-> cl, colombia |-> co]

Facturas ==
    { \* one title, nothing for the first country, quotas above the total
      << Fila(<<"a", "1">>, "T1", 1, 0, 1, 1) >>,
      \* an identifier without any letter or digit, then the same title on
      \* two rows, the second with quotas that exceed its total
      << Fila(<<"-">>, "T0", 1, 1, 0, 0),
         Fila(<<"a", "1">>, "T1", 1, 0, 1, 0),
         Fila(<<"A", "-", "1">>, "T1", 1, 1, 1, 0) >> }

Codigos == { <<"-">>, <<"a", "1">>, <<"A", "-", "1">>, <<"b", "-">> }

\* st.multiselect returns the chosen options in the order chosen: every
\* sequence of distinct countries, the empty one included.
Selecciones ==
    { s \in UNION { [1..n -> PaisSet] : n \in 0..Len(PAISES) } :
        \A i, j \in DOMAIN s : i # j => s[i] # s[j] }

NoSig == <<>>
\* md5 of the file's bytes: one signature per content.
file_sig_of(data) == data

-----------------------------------------------------------------------------
(* Manifest apply / reload *)

\* The new row with its remaining counts left at zero.
nueva_fila_sin_cupo(f) ==
    [isbn |-> f.isbn, nombre |-> f.nombre, total |-> f.total,
     peru |-> f.peru, chile |-> f.chile, colombia |-> f.colombia,
     isbn_norm |-> norm_code(f.isbn),
     sc_pe |-> 0, sc_cl |-> 0, sc_co |-> 0, sc_total |-> 0,
     rem_pe |-> 0, rem_cl |-> 0, rem_co |-> 0]

\* df.assign(sc_*=0, rem_*=quota) over the mapped columns plus isbn_norm.
nueva_fila(f) ==
    [isbn |-> f.isbn, nombre |-> f.nombre, total |-> f.total,
     peru |-> f.peru, chile |-> f.chile, colombia |-> f.colombia,
     isbn_norm |-> norm_code(f.isbn),
     sc_pe |-> 0, sc_cl |-> 0, sc_co |-> 0, sc_total |-> 0,
     rem_pe |-> f.peru, rem_cl |-> f.chile, rem_co |-> f.colombia]

nuevo_df(data) == [i \in 1..Len(data) |-> nueva_fila(data[i])]

Indices(d) == [i \in 1..Len(d) |-> i]

\* duplicated() with its default keep="first": the first row of a group is
\* not marked.
duplicated_keep_first(data) ==
    SelectSeq(Indices(data),
              LAMBDA i : \E j \in 1..Len(data) :
                  j < i /\ norm_code(data[j].isbn) = norm_code(data[i].isbn))

\* df[df["isbn_norm"].duplicated(keep=False)]: the row numbers kept.
duplicated_keep_false(data) ==
    SelectSeq(Indices(data),
              LAMBDA i : \E j \in 1..Len(data) :
                  j # i /\ norm_code(data[j].isbn) = norm_code(data[i].isbn))

\* df.loc[suma_paises != df["total"]]: the row numbers kept.
suma_distinta_total(data) ==
    SelectSeq(Indices(data),
              LAMBDA i : data[i].peru + data[i].chile + data[i].colombia # data[i].total)

\* The rows of an auditor table, each with its row number.
tabla(data, filas) == [k \in 1..Len(filas) |-> [idx |-> filas[k], fila |-> data[filas[k]]]]

need_reload(sig, apply) == (sig # file_sig) \/ apply

-----------------------------------------------------------------------------
(* Allocation *)

rem(fila, pais) ==
    CASE pais = "Peru" -> fila.rem_pe
      [] pais = "Chile" -> fila.rem_cl
      [] pais = "Colombia" -> fila.rem_co

sc(fila, pais) ==
    CASE pais = "Peru" -> fila.sc_pe
      [] pais = "Chile" -> fila.sc_cl
      [] pais = "Colombia" -> fila.sc_co

cupo(fila, pais) ==
    CASE pais = "Peru" -> fila.peru
      [] pais = "Chile" -> fila.chile
      [] pais = "Colombia" -> fila.colombia

Ninguno == [idx |-> 0, destino |-> "None"]

\* The inner loop that keeps looking and returns the last row with room.
RECURSIVE ultima_fila_con_cupo(_, _, _)
ultima_fila_con_cupo(d, pais, indices) ==
    IF indices = <<>> THEN 0
    ELSE LET i == ultima_fila_con_cupo(d, pais, Tail(indices))
         IN  IF i # 0 THEN i
             ELSE IF rem(d[Head(indices)], pais) > 0 THEN Head(indices) ELSE 0

\* The inner loop with a cap at the row's total as well.
RECURSIVE primera_fila_bajo_total(_, _, _)
primera_fila_bajo_total(d, pais, indices) ==
    IF indices = <<>> THEN 0
    ELSE IF rem(d[Head(indices)], pais) > 0 /\ d[Head(indices)].sc_total < d[Head(indices)].total
         THEN Head(indices)
    ELSE primera_fila_bajo_total(d, pais, Tail(indices))

\* The inner loop of elegir_slot_para_codigo: the first row of indices with
\* room for pais, 0 when there is none.
RECURSIVE primera_fila_con_cupo(_, _, _)
primera_fila_con_cupo(d, pais, indices) ==
    IF indices = <<>> THEN 0
    ELSE IF rem(d[Head(indices)], pais) > 0 THEN Head(indices)
    ELSE primera_fila_con_cupo(d, pais, Tail(indices))

\* The two loops the other way round: rows outside, countries inside.
RECURSIVE primer_pais_con_cupo(_, _)
primer_pais_con_cupo(fila, prio) ==
    IF prio = <<>> THEN "None"
    ELSE IF rem(fila, Head(prio)) > 0 THEN Head(prio)
    ELSE primer_pais_con_cupo(fila, Tail(prio))

RECURSIVE elegir_slot_por_fila(_, _, _)
elegir_slot_por_fila(d, prio, indices) ==
    IF indices = <<>> THEN Ninguno
    ELSE LET p == primer_pais_con_cupo(d[Head(indices)], prio)
         IN  IF p # "None" THEN [idx |-> Head(indices), destino |-> p]
             ELSE elegir_slot_por_fila(d, prio, Tail(indices))

\* The outer loop that gives up after the first country of the priority.
elegir_slot_primer_pais(d, prio, indices) ==
    IF prio = <<>> THEN Ninguno
    ELSE LET i == primera_fila_con_cupo(d, Head(prio), indices)
         IN  IF i # 0 THEN [idx |-> i, destino |-> Head(prio)] ELSE Ninguno

RECURSIVE elegir_slot_para_codigo(_, _, _)
elegir_slot_para_codigo(d, prio, indices) ==
    IF prio = <<>> THEN Ninguno
    ELSE LET i == primera_fila_con_cupo(d, Head(prio), indices)
         IN  IF i # 0 THEN [idx |-> i, destino |-> Head(prio)]
             ELSE elegir_slot_para_codigo(d, Tail(prio), indices)

\* df.index[df["isbn_norm"] == code].tolist()
ix_all_de(d, code) == SelectSeq(Indices(d), LAMBDA i : d[i].isbn_norm = code)

\* "Actualizar contadores" on the chosen row.
\* The counter update without its "sc_total += 1".
sumar_escaneo_sin_total(fila, destino) ==
    IF destino = "Peru"
    THEN [fila EXCEPT !.sc_pe = @ + 1, !.rem_pe = @ - 1]
    ELSE IF destino = "Chile"
    THEN [fila EXCEPT !.sc_cl = @ + 1, !.rem_cl = @ - 1]
    ELSE [fila EXCEPT !.sc_co = @ + 1, !.rem_co = @ - 1]

sumar_escaneo(fila, destino) ==
    LET f == IF destino = "Peru"
             THEN [fila EXCEPT !.sc_pe = @ + 1, !.rem_pe = @ - 1]
             ELSE IF destino = "Chile"
             THEN [fila EXCEPT !.sc_cl = @ + 1, !.rem_cl = @ - 1]
             ELSE [fila EXCEPT !.sc_co = @ + 1, !.rem_co = @ - 1]
    IN  [f EXCEPT !.sc_total = @ + 1]

Entrada(code, destino, idx) == [code |-> code, match |-> TRUE, destino |-> destino, idx |-> idx]

Resultado(d, log, nm, outcome) ==
    [df |-> d, scan_log |-> log, no_match |-> nm, outcome |-> outcome]

\* The "if not ix_all" branch, with the NotFound entry also written to the
\* scan log as an unmatched entry.
no_detectado_en_log(s, code) ==
    Resultado(s.df,
              Append(s.scan_log, [code |-> code, match |-> FALSE, destino |-> "None", idx |-> 0]),
              Append(s.no_match, [code |-> code]), "NotFound")

\* The "if not ix_all" branch of registrar_codigo.
no_detectado(s, code) ==
    Resultado(s.df, s.scan_log, Append(s.no_match, [code |-> code]), "NotFound")

\* The "if idx is None" branch, recording the last matching row.
completo_ultima_fila(s, code, ix_all) ==
    Resultado(s.df, Append(s.scan_log, Entrada(code, "COMPLETO", ix_all[Len(ix_all)])),
              s.no_match, "Complete")

\* The "if idx is None" branch of registrar_codigo.
completo(s, code, ix_all) ==
    Resultado(s.df, Append(s.scan_log, Entrada(code, "COMPLETO", ix_all[1])),
              s.no_match, "Complete")

\* The rest of registrar_codigo: counters of the chosen row, then the entry.
asignado(s, code, slot) ==
    Resultado([s.df EXCEPT ![slot.idx] = sumar_escaneo(@, slot.destino)],
              Append(s.scan_log, Entrada(code, slot.destino, slot.idx)),
              s.no_match, "Allocated")

\* registrar_codigo without its "if not code: return".
registrar_codigo_sin_vacio(s, raw_code) ==
    LET code == norm_code(raw_code)
        ix_all == ix_all_de(s.df, code)
        slot == elegir_slot_para_codigo(s.df, s.prioridad, ix_all)
    IN  IF ix_all = <<>> THEN no_detectado(s, code)
        ELSE IF slot.idx = 0 THEN completo(s, code, ix_all)
        ELSE asignado(s, code, slot)

\* registrar_codigo on the session s = [df, scan_log, no_match, prioridad];
\* the result is the session after it, with the outcome.
registrar_codigo(s, raw_code) ==
    LET code == norm_code(raw_code)
        ix_all == ix_all_de(s.df, code)
        slot == elegir_slot_para_codigo(s.df, s.prioridad, ix_all)
    IN  IF code = <<>> THEN Resultado(s.df, s.scan_log, s.no_match, "Empty")
        ELSE IF ix_all = <<>> THEN no_detectado(s, code)
        ELSE IF slot.idx = 0 THEN completo(s, code, ix_all)
        ELSE asignado(s, code, slot)

-----------------------------------------------------------------------------
(* Undo and reset *)

\* restar_escaneo that leaves the rem_* columns alone.
restar_escaneo_sin_rem(fila, destino) ==
    LET f == [fila EXCEPT !.sc_total = @ - 1]
    IN  IF destino = "Peru" THEN [f EXCEPT !.sc_pe = @ - 1]
        ELSE IF destino = "Chile" THEN [f EXCEPT !.sc_cl = @ - 1]
        ELSE IF destino = "Colombia" THEN [f EXCEPT !.sc_co = @ - 1]
        ELSE f

\* restar_escaneo that gives the unit back to the first country whatever
\* the entry says.
restar_escaneo_siempre_peru(fila, destino) ==
    [fila EXCEPT !.sc_total = @ - 1, !.sc_pe = @ - 1, !.rem_pe = @ + 1]

\* The counter updates of the undo handler on row i.
\* The undo of the counters without its "sc_total -= 1".
restar_escaneo_sin_total(fila, destino) ==
    IF destino = "Peru"
    THEN [fila EXCEPT !.sc_pe = @ - 1, !.rem_pe = @ + 1]
    ELSE IF destino = "Chile"
    THEN [fila EXCEPT !.sc_cl = @ - 1, !.rem_cl = @ + 1]
    ELSE IF destino = "Colombia"
    THEN [fila EXCEPT !.sc_co = @ - 1, !.rem_co = @ + 1]
    ELSE fila

restar_escaneo(fila, destino) ==
    LET f == [fila EXCEPT !.sc_total = @ - 1]
    IN  IF destino = "Peru"
        THEN [f EXCEPT !.sc_pe = @ - 1, !.rem_pe = @ + 1]
        ELSE IF destino = "Chile"
        THEN [f EXCEPT !.sc_cl = @ - 1, !.rem_cl = @ + 1]
        ELSE IF destino = "Colombia"
        THEN [f EXCEPT !.sc_co = @ - 1, !.rem_co = @ + 1]
        ELSE f

Front(q) == SubSeq(q, 1, Len(q) - 1)

\* The test on the popped entry without its destination part.
es_asignacion_sin_destino(ultimo) == ultimo.match

\* last["match"] and last["destino"] in {"Perú","Chile","Colombia"}
es_asignacion(ultimo) == ultimo.match /\ ultimo.destino \in PaisSet

\* The pop that keeps the entry in the log.
quitar_ultimo_sin_quitar(log) == log

\* scan_log.pop(): the log that remains.
quitar_ultimo(log) == Front(log)

\* An empty scan log that makes undo take back the last not-found entry.
sin_escaneos_quita_no_match(s) ==
    Resultado(s.df, s.scan_log, Front(s.no_match), "NothingToUndo")

\* The else branch of the undo handler: st.warning("No hay escaneos ...").
sin_escaneos(s) == Resultado(s.df, s.scan_log, s.no_match, "NothingToUndo")

\* The "if st.session_state.scan_log" branch of the undo handler.
\* df.loc[i, ...] on a row number the table does not have raises KeyError
\* after the entry has been popped.
deshacer_ultimo(s) ==
    LET ultimo == s.scan_log[Len(s.scan_log)]
        resto == quitar_ultimo(s.scan_log)
    IN  IF es_asignacion(ultimo) THEN
            IF ultimo.idx \in DOMAIN s.df THEN
                Resultado([s.df EXCEPT ![ultimo.idx] = restar_escaneo(@, ultimo.destino)],
                          resto, s.no_match, "Undone")
            ELSE Resultado(s.df, resto, s.no_match, "KeyError")
        ELSE Resultado(s.df, resto, s.no_match, "Popped")

\* The undo handler, taking back the last not-found entry as well.
deshacer_y_no_match(s) ==
    LET r == IF s.scan_log # <<>> THEN deshacer_ultimo(s) ELSE sin_escaneos(s)
    IN  [r EXCEPT !.no_match = Front(@)]

\* The "Deshacer último escaneo" handler.
deshacer(s) ==
    IF s.scan_log # <<>> THEN deshacer_ultimo(s) ELSE sin_escaneos(s)

\* reiniciar_fila that leaves the rem_* columns as they are.
reiniciar_fila_sin_rem(fila) ==
    [fila EXCEPT !.sc_pe = 0, !.sc_cl = 0, !.sc_co = 0, !.sc_total = 0]

\* The two column assignments of the reset handler, on one row.
reiniciar_fila(fila) ==
    [fila EXCEPT !.sc_pe = 0, !.sc_cl = 0, !.sc_co = 0, !.sc_total = 0,
                 !.rem_pe = fila.peru, !.rem_cl = fila.chile, !.rem_co = fila.colombia]

\* The reset handler without scan_log.clear().
reiniciar_sin_scan_log(s) ==
    Resultado([i \in 1..Len(s.df) |-> reiniciar_fila(s.df[i])], s.scan_log, <<>>, "Reset")

\* The reset handler without no_match.clear().
reiniciar_sin_no_match(s) ==
    Resultado([i \in 1..Len(s.df) |-> reiniciar_fila(s.df[i])], <<>>, s.no_match, "Reset")

\* The "Reiniciar escaneos" handler.
reiniciar(s) ==
    Resultado([i \in 1..Len(s.df) |-> reiniciar_fila(s.df[i])], <<>>, <<>>, "Reset")

-----------------------------------------------------------------------------
(* The state machine *)

Sesion == [df |-> df, scan_log |-> scan_log, no_match |-> no_match, prioridad |-> prioridad]

\* op: the handler that ran; raw: its input (the scanned text, the selection);
\* outcome: what it reported; tras: for undo and reset, the outcome before it.
Hecho(op, raw, outcome, tras) == [op |-> op, raw |-> raw, outcome |-> outcome, tras |-> tras]

\* ensure_session
Init ==
    /\ df = <<>>
    /\ file_sig = NoSig
    /\ scan_log = <<>>
    /\ no_match = <<>>
    /\ prioridad = PAISES
    /\ duplicados = <<>>
    /\ incongruencias = <<>>
    /\ last = Hecho("init", <<>>, "Init", "-")

\* The multiselect without its "if prioridad": an empty selection is stored.
ActualizarPrioridadSinGuardia ==
    \E sel \in Selecciones :
        /\ prioridad' = sel
        /\ last' = Hecho("prioridad", sel, IF sel # <<>> THEN "Updated" ELSE "Kept", "-")
        /\ UNCHANGED <<df, file_sig, scan_log, no_match, duplicados, incongruencias>>

\* The multiselect: a non-empty selection replaces the priority.
ActualizarPrioridad ==
    \E sel \in Selecciones :
        /\ prioridad' = IF sel # <<>> THEN sel ELSE prioridad
        /\ last' = Hecho("prioridad", sel, IF sel # <<>> THEN "Updated" ELSE "Kept", "-")
        /\ UNCHANGED <<df, file_sig, scan_log, no_match, duplicados, incongruencias>>

\* A run of the script with an uploaded file: the need_reload block.
AplicarFactura ==
    \E data \in Facturas, apply \in BOOLEAN :
        /\ need_reload(file_sig_of(data), apply)
        /\ duplicados' = tabla(data, duplicated_keep_false(data))
        /\ incongruencias' = tabla(data, suma_distinta_total(data))
        /\ df' = nuevo_df(data)
        /\ file_sig' = file_sig_of(data)
        /\ last' = Hecho("load", <<>>, "Loaded", "-")
        /\ UNCHANGED <<scan_log, no_match, prioridad>>

\* The scan input (_on_change, or the form): registrar_codigo(raw).
Escanear ==
    \E raw \in Codigos :
        LET r == registrar_codigo(Sesion, raw)
        IN  /\ file_sig # NoSig
            /\ Len(r.scan_log) + Len(r.no_match) <= MaxScans
            /\ df' = r.df
            /\ scan_log' = r.scan_log
            /\ no_match' = r.no_match
            /\ last' = Hecho("scan", raw, r.outcome, "-")
            /\ UNCHANGED <<file_sig, prioridad, duplicados, incongruencias>>

Deshacer ==
    LET r == deshacer(Sesion)
    IN  /\ file_sig # NoSig
        /\ df' = r.df
        /\ scan_log' = r.scan_log
        /\ no_match' = r.no_match
        /\ last' = Hecho("undo", <<>>, r.outcome, last.outcome)
        /\ UNCHANGED <<file_sig, prioridad, duplicados, incongruencias>>

\* The reset handler, emptying the auditor tables as well.
ReiniciarConAuditoria ==
    LET r == reiniciar(Sesion)
    IN  /\ file_sig # NoSig
        /\ df' = r.df
        /\ scan_log' = r.scan_log
        /\ no_match' = r.no_match
        /\ duplicados' = <<>>
        /\ incongruencias' = <<>>
        /\ last' = Hecho("reset", <<>>, r.outcome, last.outcome)
        /\ UNCHANGED <<file_sig, prioridad>>

Reiniciar ==
    LET r == reiniciar(Sesion)
    IN  /\ file_sig # NoSig
        /\ df' = r.df
        /\ scan_log' = r.scan_log
        /\ no_match' = r.no_match
        /\ last' = Hecho("reset", <<>>, r.outcome, last.outcome)
        /\ UNCHANGED <<file_sig, prioridad, duplicados, incongruencias>>

Next ==
    \/ ActualizarPrioridad
    \/ AplicarFactura
    \/ Escanear
    \/ Deshacer
    \/ Reiniciar

Spec == Init /\ [][Next]_vars

-----------------------------------------------------------------------------
(* One manifest, one priority, scans only: the runs that a reset followed   *)
(* by the same scans is compared with. last.tras keeps every scan made,     *)
(* in order, with its outcome.                                              *)

\* The session a handler leaves, under priority prio.
SesionDe(r, prio) ==
    [df |-> r.df, scan_log |-> r.scan_log, no_match |-> r.no_match, prioridad |-> prio]

\* The state after ensure_session, a priority selection and one apply.
InitSerie ==
    \E data \in Facturas, sel \in Selecciones \ {<<>>} :
        /\ df = nuevo_df(data)
        /\ file_sig = file_sig_of(data)
        /\ scan_log = <<>>
        /\ no_match = <<>>
        /\ prioridad = sel
        /\ duplicados = tabla(data, duplicated_keep_false(data))
        /\ incongruencias = tabla(data, suma_distinta_total(data))
        /\ last = Hecho("load", <<>>, "Loaded", <<>>)

\* The scan input, as in Escanear, with the scan added to the history.
EscanearEnSerie ==
    \E raw \in Codigos :
        LET r == registrar_codigo(Sesion, raw)
        IN  /\ Len(last.tras) < MaxScans
            /\ df' = r.df
            /\ scan_log' = r.scan_log
            /\ no_match' = r.no_match
            /\ last' = Hecho("scan", raw, r.outcome,
                             Append(last.tras, [raw |-> raw, outcome |-> r.outcome]))
            /\ UNCHANGED <<file_sig, prioridad, duplicados, incongruencias>>

SpecSerie == InitSerie /\ [][EscanearEnSerie]_vars

\* registrar_codigo for each scan of serie in turn, from session s; the
\* result is the session reached, with the scans made and their outcomes.
RECURSIVE reescanear(_, _, _)
reescanear(s, serie, hechos) ==
    IF serie = <<>> THEN [sesion |-> s, hechos |-> hechos]
    ELSE LET r == registrar_codigo(s, Head(serie).raw)
         IN  reescanear(SesionDe(r, s.prioridad), Tail(serie),
                        Append(hechos, [raw |-> Head(serie).raw, outcome |-> r.outcome]))

-----------------------------------------------------------------------------
(* One manifest: scans, then possibly a new priority, then undos. last.tras *)
(* is a stack: each scan that adds a scan log entry pushes the rows and the *)
(* scan log as they were before it, each undo pops. last.raw counts those   *)
(* scans and tells whether the priority was changed after them.             *)

Cuenta(k, cambio) == [k |-> k, cambio |-> cambio]

InitPila ==
    \E data \in Facturas, sel \in Selecciones \ {<<>>} :
        /\ df = nuevo_df(data)
        /\ file_sig = file_sig_of(data)
        /\ scan_log = <<>>
        /\ no_match = <<>>
        /\ prioridad = sel
        /\ duplicados = tabla(data, duplicated_keep_false(data))
        /\ incongruencias = tabla(data, suma_distinta_total(data))
        /\ last = Hecho("load", Cuenta(0, FALSE), "Loaded", <<>>)

\* The scan input, as in Escanear.
EscanearApilando ==
    \E raw \in Codigos :
        LET r == registrar_codigo(Sesion, raw)
            entra == r.scan_log # scan_log
        IN  /\ last.op \in {"load", "scan"}
            /\ Len(r.scan_log) + Len(r.no_match) <= MaxScans
            /\ df' = r.df
            /\ scan_log' = r.scan_log
            /\ no_match' = r.no_match
            /\ last' = Hecho("scan",
                             Cuenta(last.raw.k + (IF entra THEN 1 ELSE 0), FALSE),
                             r.outcome,
                             IF entra
                             THEN Append(last.tras, [df |-> df, scan_log |-> scan_log])
                             ELSE last.tras)
            /\ UNCHANGED <<file_sig, prioridad, duplicados, incongruencias>>

\* The multiselect, as in ActualizarPrioridad, once the scans are made.
CambiarPrioridadApilando ==
    \E sel \in Selecciones :
        /\ last.op = "scan"
        /\ prioridad' = IF sel # <<>> THEN sel ELSE prioridad
        /\ last' = Hecho("prioridad", Cuenta(last.raw.k, prioridad' # prioridad),
                         IF sel # <<>> THEN "Updated" ELSE "Kept", last.tras)
        /\ UNCHANGED <<df, file_sig, scan_log, no_match, duplicados, incongruencias>>

\* The undo button, as in Deshacer.
DeshacerApilando ==
    LET r == deshacer(Sesion)
    IN  /\ last.op \in {"scan", "prioridad", "undo"}
        /\ df' = r.df
        /\ scan_log' = r.scan_log
        /\ no_match' = r.no_match
        /\ last' = Hecho("undo", last.raw, r.outcome, Front(last.tras))
        /\ UNCHANGED <<file_sig, prioridad, duplicados, incongruencias>>

NextPila ==
    \/ EscanearApilando
    \/ CambiarPrioridadApilando
    \/ DeshacerApilando

SpecPila == InitPila /\ [][NextPila]_vars

-----------------------------------------------------------------------------
(* One manifest, then any scans, undos, resets and priority selections.     *)
(* last.tras keeps every operation made since the load, in order, with its  *)
(* input.                                                                   *)

MaxOps == 3

Operacion(op, raw) == [op |-> op, raw |-> raw]

\* The state after ensure_session and one apply.
InitHistoria ==
    \E data \in Facturas :
        /\ df = nuevo_df(data)
        /\ file_sig = file_sig_of(data)
        /\ scan_log = <<>>
        /\ no_match = <<>>
        /\ prioridad = PAISES
        /\ duplicados = tabla(data, duplicated_keep_false(data))
        /\ incongruencias = tabla(data, suma_distinta_total(data))
        /\ last = Hecho("load", <<>>, "Loaded", <<>>)

\* A scan input that gives the unit to any country of the priority, chosen
\* freely, in place of the first one with room.
EscanearSinOrden ==
    \E raw \in Codigos, k \in DOMAIN prioridad :
        LET r == registrar_codigo([Sesion EXCEPT !.prioridad = <<prioridad[k]>>], raw)
        IN  /\ Len(last.tras) < MaxOps
            /\ df' = r.df
            /\ scan_log' = r.scan_log
            /\ no_match' = r.no_match
            /\ last' = Hecho("scan", raw, r.outcome, Append(last.tras, Operacion("scan", raw)))
            /\ UNCHANGED <<file_sig, prioridad, duplicados, incongruencias>>

\* The scan input, as in Escanear.
EscanearConHistoria ==
    \E raw \in Codigos :
        LET r == registrar_codigo(Sesion, raw)
        IN  /\ Len(last.tras) < MaxOps
            /\ df' = r.df
            /\ scan_log' = r.scan_log
            /\ no_match' = r.no_match
            /\ last' = Hecho("scan", raw, r.outcome, Append(last.tras, Operacion("scan", raw)))
            /\ UNCHANGED <<file_sig, prioridad, duplicados, incongruencias>>

\* The undo button, as in Deshacer.
DeshacerConHistoria ==
    LET r == deshacer(Sesion)
    IN  /\ Len(last.tras) < MaxOps
        /\ df' = r.df
        /\ scan_log' = r.scan_log
        /\ no_match' = r.no_match
        /\ last' = Hecho("undo", <<>>, r.outcome, Append(last.tras, Operacion("undo", <<>>)))
        /\ UNCHANGED <<file_sig, prioridad, duplicados, incongruencias>>

\* The reset button, as in Reiniciar.
ReiniciarConHistoria ==
    LET r == reiniciar(Sesion)
    IN  /\ Len(last.tras) < MaxOps
        /\ df' = r.df
        /\ scan_log' = r.scan_log
        /\ no_match' = r.no_match
        /\ last' = Hecho("reset", <<>>, r.outcome, Append(last.tras, Operacion("reset", <<>>)))
        /\ UNCHANGED <<file_sig, prioridad, duplicados, incongruencias>>

\* The multiselect, as in ActualizarPrioridad.
PriorizarConHistoria ==
    \E sel \in Selecciones :
        /\ Len(last.tras) < MaxOps
        /\ prioridad' = IF sel # <<>> THEN sel ELSE prioridad
        /\ last' = Hecho("prioridad", sel, IF sel # <<>> THEN "Updated" ELSE "Kept",
                         Append(last.tras, Operacion("prioridad", sel)))
        /\ UNCHANGED <<df, file_sig, scan_log, no_match, duplicados, incongruencias>>

NextHistoria ==
    \/ EscanearConHistoria
    \/ DeshacerConHistoria
    \/ ReiniciarConHistoria
    \/ PriorizarConHistoria

SpecHistoria == InitHistoria /\ [][NextHistoria]_vars

\* The session one operation leaves, from session s.
operar(s, o) ==
    CASE o.op = "scan" -> SesionDe(registrar_codigo(s, o.raw), s.prioridad)
      [] o.op = "undo" -> SesionDe(deshacer(s), s.prioridad)
      [] o.op = "reset" -> SesionDe(reiniciar(s), s.prioridad)
      [] o.op = "prioridad" -> [s EXCEPT !.prioridad = IF o.raw # <<>> THEN o.raw ELSE @]

\* A second run: the operations of ops in turn, from session s.
RECURSIVE repetir(_, _)
repetir(s, ops) ==
    IF ops = <<>> THEN s ELSE repetir(operar(s, Head(ops)), Tail(ops))

-----------------------------------------------------------------------------
(* One manifest, one priority and one code that matches a row: after the    *)
(* load, and possibly one earlier scan, the code is scanned again and       *)
(* again, nothing else is done. last.raw is the code; last.tras keeps the   *)
(* rows as they were at the start, the number of scans made since and the   *)
(* number of them that were Allocated.                                      *)

MaxRepeticiones == 4

Repeticion(inicio, veces, asignados) ==
    [inicio |-> inicio, veces |-> veces, asignados |-> asignados]

\* The sessions the repetition starts from: the one after ensure_session, a
\* priority selection and one apply, and those one scan later.
Inicios(data, sel) ==
    LET s == SesionDe(Resultado(nuevo_df(data), <<>>, <<>>, "Loaded"), sel)
    IN  {s} \cup { SesionDe(registrar_codigo(s, previo), sel) : previo \in Codigos }

InitAgotar ==
    \E data \in Facturas, sel \in Selecciones \ {<<>>}, raw \in Codigos :
        \E s \in Inicios(data, sel) :
            /\ norm_code(raw) # <<>>
            /\ ix_all_de(s.df, norm_code(raw)) # <<>>
            /\ df = s.df
            /\ file_sig = file_sig_of(data)
            /\ scan_log = s.scan_log
            /\ no_match = s.no_match
            /\ prioridad = sel
            /\ duplicados = tabla(data, duplicated_keep_false(data))
            /\ incongruencias = tabla(data, suma_distinta_total(data))
            /\ last = Hecho("load", raw, "Loaded", Repeticion(s.df, 0, 0))

\* The scan input with the same code once more.
EscanearOtraVez ==
    LET r == registrar_codigo(Sesion, last.raw)
    IN  /\ last.tras.veces < MaxRepeticiones
        /\ df' = r.df
        /\ scan_log' = r.scan_log
        /\ no_match' = r.no_match
        /\ last' = Hecho("scan", last.raw, r.outcome,
                         Repeticion(last.tras.inicio, last.tras.veces + 1,
                                    last.tras.asignados
                                        + (IF r.outcome = "Allocated" THEN 1 ELSE 0)))
        /\ UNCHANGED <<file_sig, prioridad, duplicados, incongruencias>>

\* The operator keeps scanning: a scan that can be made is made.
SpecAgotar == InitAgotar /\ [][EscanearOtraVez]_vars /\ WF_vars(EscanearOtraVez)

-----------------------------------------------------------------------------
(* One manifest and one text: the text is scanned once. Every text over    *)
(* the characters below, up to MaxLen of them, is tried.                   *)

\* Lower-case and upper-case letters, digits, and two other characters.
Caracteres == {"a", "b", "A", "B", "1", "9", "-", " "}

Textos == UNION { [1..n -> Caracteres] : n \in 0..MaxLen }

\* The state after ensure_session and one apply, and the text to be scanned.
InitTexto ==
    \E data \in Facturas, texto \in Textos :
        /\ df = nuevo_df(data)
        /\ file_sig = file_sig_of(data)
        /\ scan_log = <<>>
        /\ no_match = <<>>
        /\ prioridad = PAISES
        /\ duplicados = tabla(data, duplicated_keep_false(data))
        /\ incongruencias = tabla(data, suma_distinta_total(data))
        /\ last = Hecho("load", texto, "Loaded", "-")

\* The scan input with the text: registrar_codigo(texto).
EscanearTexto ==
    LET r == registrar_codigo(Sesion, last.raw)
    IN  /\ last.op = "load"
        /\ df' = r.df
        /\ scan_log' = r.scan_log
        /\ no_match' = r.no_match
        /\ last' = Hecho("scan", last.raw, r.outcome, "-")
        /\ UNCHANGED <<file_sig, prioridad, duplicados, incongruencias>>

SpecTexto == InitTexto /\ [][EscanearTexto]_vars

-----------------------------------------------------------------------------
(* Properties *)

Filas == DOMAIN df
Ultimo(q) == q[Len(q)]
Coinciden(d, code) == { i \in DOMAIN d : d[i].isbn_norm = code }
Min(S) == CHOOSE m \in S : \A n \in S : m <= n
EsEscaneo(raw) == last'.op = "scan" /\ last'.raw = raw

\* C1: in every reachable state, on every row and for every country, the
\* remaining count plus the scanned count equals the quota.
C1_RemPlusScannedIsQuota ==
    \A i \in Filas : \A p \in PaisSet :
        rem(df[i], p) + sc(df[i], p) = cupo(df[i], p)

\* An undo has just reversed an allocation while another allocation stands.
C1_Witness ==
    /\ last.op = "undo" /\ last.outcome = "Undone"
    /\ \E i \in Filas : df[i].sc_total > 0

\* C2: in every reachable state, on every row and for every country, the
\* scanned count lies between 0 and the quota, reloads included.
C2_ScannedWithinQuota ==
    \A i \in Filas : \A p \in PaisSet :
        0 <= sc(df[i], p) /\ sc(df[i], p) <= cupo(df[i], p)

\* C3: from every reachable state and for every code whose scan allocates,
\* the scan followed at once by an undo gives back the rows with all their
\* counters, the scan log and the not-found log as they were.
C3_UndoInvertsAllocate ==
    \A raw \in Codigos :
        LET r == registrar_codigo(Sesion, raw)
            u == deshacer([df |-> r.df, scan_log |-> r.scan_log,
                           no_match |-> r.no_match, prioridad |-> prioridad])
        IN  r.outcome = "Allocated" =>
                /\ u.df = df
                /\ u.scan_log = scan_log
                /\ u.no_match = no_match

\* An undo has run right after a scan that allocated.
C3_Witness ==
    /\ last.op = "undo" /\ last.tras = "Allocated" /\ last.outcome = "Undone"
    /\ scan_log # <<>>

\* The (priority position, row) pairs with room left for a code.
Candidatos(d, prio, code) ==
    { par \in (1..Len(prio)) \X Coinciden(d, code) : rem(d[par[2]], prio[par[1]]) > 0 }

\* C4: a scan that allocates picks the first pair with remaining > 0 in the
\* order "priority position first, row number second".
C4_FirstInPriorityThenRowOrder ==
    [][ \A raw \in Codigos :
          (EsEscaneo(raw) /\ last'.outcome = "Allocated") =>
            LET e == Ultimo(scan_log')
                cand == Candidatos(df, prioridad, norm_code(raw))
            IN  /\ scan_log' = Append(scan_log, e)
                /\ \E par \in cand :
                     /\ prioridad[par[1]] = e.destino
                     /\ par[2] = e.idx
                     /\ \A otro \in cand :
                          \/ par[1] < otro[1]
                          \/ (par[1] = otro[1] /\ par[2] <= otro[2]) ]_vars

\* A scan was given to a later row for the first country of the priority
\* while an earlier matching row still has room for a later country.
C4_Witness ==
    /\ last.op = "scan" /\ last.outcome = "Allocated"
    /\ \E i \in Filas, k \in 2..Len(prioridad) :
         /\ i < Ultimo(scan_log).idx
         /\ df[i].isbn_norm = Ultimo(scan_log).code
         /\ Ultimo(scan_log).destino = prioridad[1]
         /\ rem(df[i], prioridad[k]) > 0

\* C5: a scan of a non-empty code is Complete exactly when some row matches
\* and no matching row has remaining > 0 for any of the three countries.
C5_CompleteIffNothingRemains ==
    [][ \A raw \in Codigos :
          (EsEscaneo(raw) /\ norm_code(raw) # <<>>) =>
            LET filas == Coinciden(df, norm_code(raw))
            IN  (last'.outcome = "Complete") <=>
                  (filas # {} /\ \A i \in filas : \A p \in PaisSet : rem(df[i], p) <= 0) ]_vars

\* C6: a scan that is Complete appends one matched entry with destination
\* COMPLETO on the first matching row and changes neither the rows nor the
\* not-found log.
C6_CompleteOnlyLogs ==
    [][ \A raw \in Codigos :
          (EsEscaneo(raw) /\ last'.outcome = "Complete") =>
            /\ Coinciden(df, norm_code(raw)) # {}
            /\ scan_log' = Append(scan_log,
                   [code |-> norm_code(raw), match |-> TRUE, destino |-> "COMPLETO",
                    idx |-> Min(Coinciden(df, norm_code(raw)))])
            /\ df' = df
            /\ no_match' = no_match ]_vars

\* A Complete scan of a title that is on two rows, the first of them not the
\* first row of the table, after an allocation.
C6_Witness ==
    /\ last.op = "scan" /\ last.outcome = "Complete"
    /\ Ultimo(scan_log).idx > 1
    /\ Cardinality(Coinciden(df, Ultimo(scan_log).code)) > 1
    /\ \E i \in Filas : df[i].sc_total > 0

\* C7: a scan of a non-empty normalized code that no row has is NotFound: the
\* not-found log gets one entry with the normalized code, and the scan log
\* and the rows stay as they are.
C7_NotFoundOnlyLogsNoMatch ==
    [][ \A raw \in Codigos :
          (EsEscaneo(raw) /\ norm_code(raw) # <<>> /\ Coinciden(df, norm_code(raw)) = {}) =>
            /\ last'.outcome = "NotFound"
            /\ no_match' = Append(no_match, [code |-> norm_code(raw)])
            /\ scan_log' = scan_log
            /\ df' = df ]_vars

\* A NotFound scan of a code whose raw text differs from its normalized
\* form, with allocations already made.
C7_Witness ==
    /\ last.op = "scan" /\ last.outcome = "NotFound"
    /\ Ultimo(no_match).code # last.raw
    /\ scan_log # <<>>
    /\ \E i \in Filas : df[i].sc_total > 0

\* C8: a scan of a raw code whose normalized form is empty changes neither
\* the rows nor the scan log nor the not-found log.
C8_EmptyCodeIsNoOp ==
    [][ \A raw \in Codigos :
          (EsEscaneo(raw) /\ norm_code(raw) = <<>>) =>
            /\ df' = df
            /\ scan_log' = scan_log
            /\ no_match' = no_match ]_vars

\* Such a scan was made while a row whose identifier normalizes to the
\* empty text has room left under the current priority.
C8_Witness ==
    /\ last.op = "scan" /\ last.raw # <<>> /\ norm_code(last.raw) = <<>>
    /\ \E i \in Filas : \E k \in 1..Len(prioridad) :
         df[i].isbn_norm = <<>> /\ rem(df[i], prioridad[k]) > 0

\* C9: undo on an empty scan log reports that there is nothing to undo and
\* changes neither the rows nor the two logs.
C9_UndoOnEmptyLogIsNoOp ==
    [][ (last'.op = "undo" /\ scan_log = <<>>) =>
          /\ last'.outcome = "NothingToUndo"
          /\ df' = df
          /\ scan_log' = scan_log
          /\ no_match' = no_match ]_vars

\* Undo ran on an empty scan log while the not-found log had an entry.
C9_Witness ==
    /\ last.op = "undo" /\ last.outcome = "NothingToUndo"
    /\ scan_log = <<>>
    /\ no_match # <<>>

\* C10: undo with a COMPLETO entry last removes that entry alone and changes
\* no counter of any row.
C10_UndoOfCompleteOnlyPops ==
    [][ (last'.op = "undo" /\ scan_log # <<>> /\ Ultimo(scan_log).destino = "COMPLETO") =>
          /\ scan_log' = Front(scan_log)
          /\ df' = df
          /\ no_match' = no_match ]_vars

\* Undo removed a COMPLETO entry and the allocation before it still stands,
\* in the log and in the counters of its row.
C10_Witness ==
    /\ last.op = "undo" /\ last.outcome = "Popped"
    /\ scan_log # <<>>
    /\ Ultimo(scan_log).destino \in PaisSet
    /\ Ultimo(scan_log).idx \in Filas
    /\ sc(df[Ultimo(scan_log).idx], Ultimo(scan_log).destino) > 0

\* The manifest columns of a row.
Manifiesto(fila) ==
    [isbn |-> fila.isbn, nombre |-> fila.nombre, total |-> fila.total,
     peru |-> fila.peru, chile |-> fila.chile, colombia |-> fila.colombia,
     isbn_norm |-> fila.isbn_norm]

\* C11: reset leaves every scanned counter and scanned_total at 0 and every
\* remaining counter at its quota, empties both logs, and changes neither
\* the manifest columns nor the priority nor the auditor tables.
C11_ResetRestoresQuotas ==
    [][ last'.op = "reset" =>
          /\ DOMAIN df' = DOMAIN df
          /\ \A i \in Filas :
               /\ Manifiesto(df'[i]) = Manifiesto(df[i])
               /\ df'[i].sc_total = 0
               /\ \A p \in PaisSet :
                    sc(df'[i], p) = 0 /\ rem(df'[i], p) = cupo(df[i], p)
          /\ scan_log' = <<>>
          /\ no_match' = <<>>
          /\ UNCHANGED <<prioridad, duplicados, incongruencias, file_sig>> ]_vars

\* The state right after a reset that followed a NotFound scan, with a
\* table that has quotas and flagged rows.
C11_Witness ==
    /\ last.op = "reset" /\ last.tras = "NotFound"
    /\ incongruencias # <<>>
    /\ \E i \in Filas : \E p \in PaisSet : rem(df[i], p) > 0

\* C12: after any series of scans made since the manifest was applied, under
\* one priority, a reset followed by the same scans in the same order gives
\* every scan the same outcome and ends with the same rows (all counters),
\* the same scan log and the same not-found log.
C12_ReplayAfterReset ==
    LET fin == reescanear(SesionDe(reiniciar(Sesion), prioridad), last.tras, <<>>)
    IN  /\ fin.hechos = last.tras
        /\ fin.sesion.df = df
        /\ fin.sesion.scan_log = scan_log
        /\ fin.sesion.no_match = no_match

\* Two scans were made: the first allocated, the second went to another row
\* or found the title complete.
C12_Witness ==
    /\ Len(last.tras) = 2
    /\ last.tras[1].outcome = "Allocated"
    /\ last.tras[2].outcome \in {"Allocated", "Complete"}
    /\ Len(scan_log) = 2
    /\ scan_log[1].idx # scan_log[2].idx \/ scan_log[2].destino = "COMPLETO"

\* C13: rows that share a normalized identifier are all searched and stay
\* separate: a scan allocated to a country goes to the earliest matching row
\* that still has room for that country, and changes no other row; so two
\* rows with room for one unit each receive one scan each, in row order.
C13_EarliestRowWithRoom ==
    [][ \A raw \in Codigos :
          (EsEscaneo(raw) /\ last'.outcome = "Allocated") =>
            LET e == Ultimo(scan_log')
                conCupo == { i \in Coinciden(df, norm_code(raw)) : rem(df[i], e.destino) > 0 }
            IN  /\ conCupo # {}
                /\ e.idx = Min(conCupo)
                /\ sc(df'[e.idx], e.destino) = sc(df[e.idx], e.destino) + 1
                /\ \A i \in Filas \ {e.idx} : df'[i] = df[i] ]_vars

\* Two rows share the identifier, each had room for one unit of the same
\* country; two scans later the first row and then the second row hold one.
C13_Witness ==
    /\ last.op = "scan" /\ last.outcome = "Allocated"
    /\ Len(scan_log) = 2
    /\ scan_log[1].destino = scan_log[2].destino
    /\ scan_log[1].code = scan_log[2].code
    /\ scan_log[1].idx < scan_log[2].idx
    /\ \A k \in 1..2 :
         /\ scan_log[k].idx \in Filas
         /\ cupo(df[scan_log[k].idx], scan_log[k].destino) = 1
         /\ sc(df[scan_log[k].idx], scan_log[k].destino) = 1
         /\ rem(df[scan_log[k].idx], scan_log[k].destino) = 0

\* The manifest columns of a row as the auditor tables keep them.
Cargada(fila) ==
    [isbn |-> fila.isbn, nombre |-> fila.nombre, total |-> fila.total,
     peru |-> fila.peru, chile |-> fila.chile, colombia |-> fila.colombia]

Marcadas(t) == { t[k].idx : k \in DOMAIN t }

\* C14: the auditor's duplicate and mismatch tables change only when a
\* manifest is applied, and then hold rows of the new table only; scans,
\* undo, reset and priority updates leave them as they are.
C14_AuditorIsLoadTimeSnapshot ==
    [][ /\ last'.op # "load" => UNCHANGED <<duplicados, incongruencias>>
        /\ last'.op = "load" =>
             \A t \in {duplicados', incongruencias'} : \A k \in DOMAIN t :
                 /\ t[k].idx \in DOMAIN df'
                 /\ t[k].fila = Cargada(df'[t[k].idx]) ]_vars

\* A row flagged for quotas that do not add up to its total has received
\* all of its quota and is still in the mismatch table.
C14_Witness ==
    /\ last.op = "scan"
    /\ \E k \in DOMAIN incongruencias :
         LET i == incongruencias[k].idx
         IN  /\ i \in Filas
             /\ incongruencias[k].fila = Cargada(df[i])
             /\ df[i].sc_total = df[i].peru + df[i].chile + df[i].colombia
             /\ df[i].sc_total > 0
             /\ \A p \in PaisSet : rem(df[i], p) = 0

\* C15: with a manifest applied, the duplicate table holds exactly the rows
\* whose normalized identifier is also that of another row, and the mismatch
\* table exactly the rows whose three quotas do not add up to the total,
\* each row once.
C15_AuditorFlagsExactly ==
    file_sig # NoSig =>
        /\ Marcadas(duplicados) =
             { i \in Filas : \E j \in Filas \ {i} :
                 norm_code(df[j].isbn) = norm_code(df[i].isbn) }
        /\ Len(duplicados) = Cardinality(Marcadas(duplicados))
        /\ Marcadas(incongruencias) =
             { i \in Filas : df[i].peru + df[i].chile + df[i].colombia # df[i].total }
        /\ Len(incongruencias) = Cardinality(Marcadas(incongruencias))

\* A table with a row in neither list, the first row of a duplicate group
\* flagged as duplicate only, and a later row of the group in both lists.
C15_Witness ==
    /\ last.op = "load"
    /\ \E i, j, n \in Filas :
         /\ i < j
         /\ df[i].isbn # df[j].isbn
         /\ {i, j} \subseteq Marcadas(duplicados)
         /\ i \notin Marcadas(incongruencias)
         /\ j \in Marcadas(incongruencias)
         /\ n \notin Marcadas(duplicados) \cup Marcadas(incongruencias)

Mayusculas == {"A", "B"}
Digitos == {"1", "9"}
EnMayuscula(c) == IF c = "a" THEN "A" ELSE IF c = "b" THEN "B" ELSE c
Guardadas(s) == { i \in DOMAIN s : EnMayuscula(s[i]) \in Mayusculas \cup Digitos }

\* The text is norm_code's result for s: only upper-case letters and digits,
\* namely the letters and digits of s in their order, letters in upper case;
\* and normalizing it again changes nothing.
EsNormalizado(s, n) ==
    /\ \A k \in DOMAIN n : n[k] \in Mayusculas \cup Digitos
    /\ Len(n) = Cardinality(Guardadas(s))
    /\ \A i \in Guardadas(s) :
         n[Cardinality({ j \in Guardadas(s) : j <= i })] = EnMayuscula(s[i])
    /\ norm_code(n) = n
    /\ norm_code(<<>>) = <<>>

\* The scan of the text was matched to a row: it allocated or found the
\* title complete.
Coincidio == last.op = "scan" /\ last.outcome \in {"Allocated", "Complete"}

\* C16 as stated: norm_code keeps the letters and digits in order, in upper
\* case, is idempotent, maps the empty text to itself, and a scanned text
\* matches a row exactly when both normalize to the same text.
C16_NormalizeAndMatch ==
    /\ EsNormalizado(last.raw, norm_code(last.raw))
    /\ last.op = "scan" =>
         (Coincidio <=> \E i \in Filas : norm_code(df[i].isbn) = norm_code(last.raw))

\* C16 amended: the same, with the match limited to texts whose normalized
\* form is not empty; a text whose normalized form is empty matches no row.
C16_NormalizeAndMatchNonEmpty ==
    /\ EsNormalizado(last.raw, norm_code(last.raw))
    /\ (last.op = "scan" /\ norm_code(last.raw) # <<>>) =>
         (Coincidio <=> \E i \in Filas : norm_code(df[i].isbn) = norm_code(last.raw))
    /\ (last.op = "scan" /\ norm_code(last.raw) = <<>>) => ~Coincidio

\* A text with a lower-case letter and a character that is dropped was
\* scanned and matched a row whose identifier is written differently.
C16_Witness ==
    /\ Coincidio
    /\ norm_code(last.raw) # last.raw
    /\ \E k \in DOMAIN last.raw : last.raw[k] \notin Mayusculas \cup Digitos \cup {"a", "b"}
    /\ \E k \in DOMAIN last.raw : last.raw[k] \in {"a", "b"}
    /\ Ultimo(scan_log).idx \in Filas
    /\ df[Ultimo(scan_log).idx].isbn # last.raw

\* C17: undo never changes the not-found log; an undo right after a NotFound
\* scan keeps the NotFound entry and removes the last scan log entry, when
\* there is one.
C17_UndoKeepsNotFoundLog ==
    [][ last'.op = "undo" =>
          /\ no_match' = no_match
          /\ (last.outcome = "NotFound" /\ scan_log # <<>>) =>
               (no_match' # <<>> /\ scan_log' = Front(scan_log)) ]_vars

\* Undo ran right after a NotFound scan and removed a scan log entry; the
\* NotFound entry is still there.
C17_Witness ==
    /\ last.op = "undo" /\ last.tras = "NotFound"
    /\ last.outcome \in {"Undone", "Popped"}
    /\ no_match # <<>>

\* C18: each undo on a non-empty scan log removes the last entry alone and
\* puts the rows back as they were before the scan that wrote it; so after
\* k scans that wrote an entry each and k undos, the rows and the scan log
\* are as before the first of those scans, also when the priority was
\* changed after the scans.
C18_UndoWalksBackOneEntry ==
    [][ (last'.op = "undo" /\ scan_log # <<>>) =>
          /\ scan_log' = Front(scan_log)
          /\ last.tras # <<>>
          /\ scan_log' = Ultimo(last.tras).scan_log
          /\ df' = Ultimo(last.tras).df
          /\ last'.tras = <<>> => (scan_log' = <<>> /\ df' = nuevo_df(file_sig)) ]_vars

\* Two scans wrote an entry each, the priority was changed, and two undos
\* have emptied the log again.
C18_Witness ==
    /\ last.op = "undo" /\ last.outcome = "Undone"
    /\ last.raw.k = 2 /\ last.raw.cambio
    /\ last.tras = <<>>
    /\ scan_log = <<>>

\* C19: a priority update changes no row and no log; a non-empty selection
\* becomes the priority and an empty one leaves the priority as it was; and
\* a scan that allocates gives the unit to the first country, in the
\* priority in force when the scan is made, with room on a matching row.
C19_PriorityReadAtEachScan ==
    [][ /\ last'.op = "prioridad" =>
             /\ UNCHANGED <<df, scan_log, no_match>>
             /\ prioridad' = IF last'.raw # <<>> THEN last'.raw ELSE prioridad
        /\ \A raw \in Codigos :
             (EsEscaneo(raw) /\ last'.outcome = "Allocated") =>
               LET hayCupo(p) == \E i \in Coinciden(df, norm_code(raw)) : rem(df[i], p) > 0
               IN  \E k \in DOMAIN prioridad :
                     /\ prioridad[k] = Ultimo(scan_log').destino
                     /\ hayCupo(prioridad[k])
                     /\ \A m \in 1..(k - 1) : ~hayCupo(prioridad[m]) ]_vars

\* Two scans of one title on the same table: the first went to one country
\* although another had room, the second to that other country although the
\* first still has room: the priority was changed between them.
C19_Witness ==
    /\ last.op = "scan" /\ last.outcome = "Allocated"
    /\ Len(scan_log) = 2
    /\ \A k \in 1..2 : scan_log[k].idx \in Filas /\ scan_log[k].destino \in PaisSet
    /\ scan_log[1].destino # scan_log[2].destino
    /\ sc(df[scan_log[1].idx], scan_log[1].destino) = 1
    /\ sc(df[scan_log[2].idx], scan_log[2].destino) = 1
    /\ \E i \in Coinciden(df, scan_log[2].code) : rem(df[i], scan_log[1].destino) > 0
    /\ prioridad[1] = scan_log[2].destino

\* C20: a scan with outcome Allocated appends exactly one scan log entry,
\* naming one row and one country; on that row the scanned count of that
\* country and the scanned total go up by one and the remaining count of
\* that country goes down by one; the other countries' counts on that row,
\* every count of every other row, the manifest columns of every row, the
\* not-found log and the priority stay as they were.
C20_AllocatedChangesOneRowOneCountry ==
    [][ \A raw \in Codigos :
          (EsEscaneo(raw) /\ last'.outcome = "Allocated") =>
            LET e == Ultimo(scan_log')
                uno(i, p) == IF i = e.idx /\ p = e.destino THEN 1 ELSE 0
            IN  /\ scan_log' = Append(scan_log, e)
                /\ e.idx \in Filas /\ e.destino \in PaisSet
                /\ e.code = norm_code(raw) /\ e.match
                /\ DOMAIN df' = DOMAIN df
                /\ \A i \in Filas :
                     /\ \A p \in PaisSet :
                          /\ sc(df'[i], p) = sc(df[i], p) + uno(i, p)
                          /\ rem(df'[i], p) = rem(df[i], p) - uno(i, p)
                          /\ cupo(df'[i], p) = cupo(df[i], p)
                     /\ df'[i].sc_total = df[i].sc_total + (IF i = e.idx THEN 1 ELSE 0)
                     /\ df'[i].isbn = df[i].isbn
                     /\ df'[i].isbn_norm = df[i].isbn_norm
                     /\ df'[i].nombre = df[i].nombre
                     /\ df'[i].total = df[i].total
                /\ UNCHANGED <<no_match, prioridad, file_sig>> ]_vars

\* An allocation on a table of several rows that already holds a scan and a
\* not-found entry: the newest entry names a row other than the first.
C20_Witness ==
    /\ last.op = "scan" /\ last.outcome = "Allocated"
    /\ Len(df) > 1
    /\ scan_log # <<>> /\ no_match # <<>>
    /\ Ultimo(scan_log).idx \in Filas
    /\ Ultimo(scan_log).idx > 1
    /\ df[Ultimo(scan_log).idx].sc_total = 1

C22_ScannedTotalIsSum ==
    \A i \in Filas : df[i].sc_total = df[i].sc_pe + df[i].sc_cl + df[i].sc_co

\* An undo has just taken back the second of two allocations: the row of the
\* first keeps its one unit.
C22_Witness ==
    /\ last.op = "undo" /\ last.outcome = "Undone"
    /\ Len(scan_log) = 1
    /\ scan_log[1].idx \in Filas
    /\ df[scan_log[1].idx].sc_total = 1
    /\ sc(df[scan_log[1].idx], "Chile") = 1

\* C23: a scan of a code that matches a row with room for a country of the
\* priority is Allocated, whatever the scanned total and the total of that
\* row are; and on every row the scanned total never exceeds the sum of the
\* three quotas.
C23_CappedByQuotaOnly ==
    /\ [](\A i \in Filas : df[i].sc_total <= df[i].peru + df[i].chile + df[i].colombia)
    /\ [][ \A raw \in Codigos :
             ( /\ EsEscaneo(raw)
               /\ norm_code(raw) # <<>>
               /\ \E i \in Coinciden(df, norm_code(raw)), k \in DOMAIN prioridad :
                     rem(df[i], prioridad[k]) > 0 )
             => last'.outcome = "Allocated" ]_vars

\* An allocation on a row whose scanned total had already reached its
\* total: the row is now over-scanned.
C23_Witness ==
    /\ last.op = "scan" /\ last.outcome = "Allocated"
    /\ Ultimo(scan_log).idx \in Filas
    /\ LET fila == df[Ultimo(scan_log).idx]
       IN  /\ fila.peru + fila.chile + fila.colombia > fila.total
           /\ fila.sc_total > fila.total

\* C24: right after a manifest is applied or reloaded the table has one row
\* per line of that manifest, with the line's quotas, and on every row every
\* scanned count and the scanned total are 0 and every remaining count is
\* the quota.
C24_ReloadRebuildsCounters ==
    last.op = "load" =>
        /\ Len(df) = Len(file_sig)
        /\ \A i \in Filas :
             /\ df[i].sc_total = 0
             /\ \A p \in PaisSet :
                  /\ cupo(df[i], p) = cupo(file_sig[i], p)
                  /\ sc(df[i], p) = 0
                  /\ rem(df[i], p) = cupo(df[i], p)

\* A reload made while the scan log holds MaxScans allocations.
C24_Witness ==
    /\ last.op = "load"
    /\ Len(scan_log) = MaxScans
    /\ \A k \in DOMAIN scan_log : scan_log[k].destino \in PaisSet
    /\ Len(df) > 1

\* C25: in every state reached from one manifest load by scans, undos,
\* resets and priority selections, the scanned count of each country on
\* each row is the number of scan log entries with that country and that
\* row; and every scan log entry is a matched one whose row exists and has
\* the entry's code as its normalized identifier.
C25_LogMatchesCounters ==
    /\ \A i \in Filas, p \in PaisSet :
         sc(df[i], p) = Cardinality({ k \in DOMAIN scan_log :
                                        scan_log[k].destino = p /\ scan_log[k].idx = i })
    /\ \A k \in DOMAIN scan_log :
         /\ scan_log[k].match
         /\ scan_log[k].idx \in Filas
         /\ df[scan_log[k].idx].isbn_norm = scan_log[k].code

\* After a priority selection, two scans of one title gave one row a unit
\* for Colombia and then a unit for Chile.
C25_Witness ==
    /\ \E k \in DOMAIN last.tras : last.tras[k].op = "prioridad"
    /\ Len(scan_log) = 2
    /\ scan_log[1].destino = "Colombia" /\ scan_log[2].destino = "Chile"
    /\ scan_log[1].idx = scan_log[2].idx
    /\ df[scan_log[1].idx].sc_co = 1 /\ df[scan_log[1].idx].sc_cl = 1

RECURSIVE SumaCupo(_, _)
SumaCupo(d, pares) ==
    IF pares = {} THEN 0
    ELSE LET c == CHOOSE x \in pares : TRUE
             r == rem(d[c[1]], c[2])
         IN  (IF r > 0 THEN r ELSE 0) + SumaCupo(d, pares \ {c})

\* The sum of the positive remaining counts, at the start, over the rows
\* that match the code and the countries of the priority.
Esperado ==
    SumaCupo(last.tras.inicio,
             Coinciden(last.tras.inicio, norm_code(last.raw))
                 \X { prioridad[k] : k \in DOMAIN prioridad })

\* C26: when one code that matches a row is scanned again and again, the
\* first scans are Allocated, as many as the sum at the start of the
\* positive remaining counts over the matching rows and the countries of the
\* priority, and every scan after them is Complete; once a scan is Complete
\* the next one is; and the scans do reach Complete and stay there.
C26_ExhaustionReachesComplete ==
    /\ [](last.op = "scan" =>
            /\ last.outcome = IF last.tras.veces <= Esperado THEN "Allocated" ELSE "Complete"
            /\ last.tras.asignados = Min({last.tras.veces, Esperado}))
    /\ [][last.outcome = "Complete" => last'.outcome = "Complete"]_vars
    /\ <>[](last.outcome = "Complete")

\* From the load, three allocations on two rows, then Complete, under a
\* priority that leaves a country out.
C26_Witness ==
    /\ last.op = "scan" /\ last.outcome = "Complete"
    /\ last.tras.asignados = 3
    /\ last.tras.veces = 4
    /\ Len(scan_log) = 4
    /\ Len(prioridad) < Len(PAISES)
    /\ \E k \in 1..3 : scan_log[k].idx # scan_log[1].idx

====
